---------------------------- MODULE Spec2Model ----------------------------
(***************************************************************************)
(* Element-wise sum of two integer arrays, sequentially and with an        *)
(* OpenMP parallel for: src/main.cpp (prog = "main") and                   *)
(* src/SolucionSumaArreglosParalela_Oliver_Viveros.cpp (prog = "solucion").*)
(*                                                                         *)
(* The sources fix the array length (N = 1000, n = 10), the chunk size     *)
(* (100) and the preview length (10) at compile time.  The properties      *)
(* checked here quantify over the array length, the chunk size and the     *)
(* team size, so the model draws them from small sets: the length in       *)
(* 0..MaxN, the chunk size in 1..MaxChunk or the compiled-in 100, the      *)
(* preview length the compiled-in 10 or a length in 1..MaxMostrar that fits *)
(* the array, and the team size, which the OpenMP runtime picks, in        *)
(* 1..MaxThreads.                                                          *)
(***************************************************************************)
EXTENDS Integers, Sequences, FiniteSets

\* ------------------------------------------------------------------ bounds
MaxN == 3
MaxChunk == 3
MaxThreads == 3
MaxMostrar == 1

\* ------------------------------------------------------- program constants
chunk == 100
mostrar == 10
DistLo == 1
DistHi == 1000
NumThreads == 2
IntMax == 2147483647

VARIABLES
    prog,       \* which of the two programs runs
    N,          \* array length (N in main.cpp, n in the second program)
    k,          \* number of elements the reporter prints of each array
    A, B,       \* input arrays, index 0..N-1
    C_seq,      \* sequential result (C_seq / R)
    C_par,      \* parallel result (C_par / Rpar)
    pc,         \* position of the main thread
    i,          \* loop counter of the main thread
    x,          \* loop counter of the reporter
    numThreads, \* omp_set_num_threads value, 0 = runtime default
    pedazos,    \* chunk size of the schedule clause, 0 = no clause
    team,       \* size of the team of the parallel region, 0 = no team
    wpc,        \* per worker: "run" or "done"
    wi,         \* per worker: the iteration it executes next
    writers,    \* history: per index, the workers that wrote C_par[index], in order
    lastRead,   \* history: the last array element the reporter read
    correcto,   \* the verifier's flag
    out,        \* lines written to standard output
    ret         \* exit code, -1 while running

vars == <<prog, N, k, A, B, C_seq, C_par, pc, i, x, numThreads, pedazos,
          team, wpc, wi, writers, lastRead, correcto, out, ret>>

\* ----------------------------------------------------------------- helpers
Idx == 0 .. (N - 1)

Min(S) == CHOOSE m \in S : \A o \in S : m <= o

IntMin == (-IntMax) - 1

\* a + b on int, a two's-complement integer of 32 bits: the sum wraps around
\* when it leaves IntMin..IntMax
Add32(a, b) ==
    IF b > 0 /\ a > IntMax - b
    THEN ((a - IntMax) - 1) + ((b - IntMax) - 1)
    ELSE IF b < 0 /\ a < IntMin - b
         THEN ((a + IntMax) + 1) + ((b + IntMax) + 1)
         ELSE a + b

\* a distribution over all positive int values: dist(1, INT_MAX)
DistValues_Unbounded == {DistLo, IntMax}

\* the values uniform_int_distribution<int> dist(1, 1000) can return, sampled
\* at both ends of its closed range
DistValues == {DistLo, DistHi}

Line(tag, idx, s, p) == [tag |-> tag, idx |-> idx, seq |-> s, par |-> p]

Zeros(len) == [j \in 0 .. (len - 1) |-> 0]

\* ------------------------------------------------------------ OpenMP static
\* #pragma omp parallel without for: every thread runs the whole loop
Iterations_WholeLoop(t, T, c, len) == 0 .. (len - 1)

\* the last, partial chunk is never handed out
Iterations_DropPartial(t, T, c, len) ==
    LET size == IF c > 0 THEN c ELSE T
    IN  {j \in 0 .. (len - 1) :
            /\ (j \div size) % T = t
            /\ (j \div size) < len \div size}

\* schedule(static, c): chunks of c iterations are dealt to the threads of the
\* team round-robin in thread order.  Without a schedule clause (c = 0) the
\* iterations are divided into one contiguous block per thread, the first
\* len % T threads getting one more iteration.
Iterations(t, T, c, len) ==
    IF c > 0
    THEN {j \in 0 .. (len - 1) : (j \div c) % T = t}
    ELSE LET q == len \div T
             r == len % T
             lo == IF t < r THEN t * (q + 1) ELSE t * q + r
             sz == IF t < r THEN q + 1 ELSE q
         IN  {j \in 0 .. (len - 1) : lo <= j /\ j < lo + sz}

\* a thread that stops after its first chunk
NextIter_FirstChunkOnly(t, cur) ==
    IF cur + 1 < N /\ cur + 1 \in Iterations(t, team, pedazos, N)
    THEN cur + 1
    ELSE N

\* the first iteration of thread t after iteration cur, len when there is none
NextIter(t, cur) ==
    LET rest == {j \in Iterations(t, team, pedazos, N) : j > cur}
    IN  IF rest = {} THEN N ELSE Min(rest)

\* the preview length of main.cpp: the compiled-in mostrar, whatever the array
\* length, and the small lengths that fit the array as mostrar = 10 fits the
\* compiled-in N = 1000
PreviewLengths(len) == {mostrar} \cup {m \in 1 .. MaxMostrar : m <= len}

\* ------------------------------------------------------------------- Init
Init ==
    /\ prog \in {"main", "solucion"}
    /\ N \in 0 .. MaxN
    /\ k \in IF prog = "main" THEN PreviewLengths(N) ELSE {N}
    /\ A = Zeros(N)
    /\ B = Zeros(N)
    /\ C_seq = Zeros(N)
    /\ C_par = Zeros(N)
    /\ pc = "gen"
    /\ i = 0
    /\ x = 0
    /\ numThreads = 0
    /\ pedazos = 0
    /\ team = 0
    /\ wpc = << >>
    /\ wi = << >>
    /\ writers = [j \in Idx |-> << >>]
    /\ lastRead = [arr |-> "none", idx |-> 0]
    /\ correcto = FALSE
    /\ out = IF prog = "main" THEN <<Line("titulo", 0, 0, 0)>> ELSE << >>
    /\ ret = -1

\* ------------------------------------------------------------- generation
GenStep ==
    /\ pc = "gen"
    /\ i < N
    /\ \E a \in DistValues, b \in DistValues :
          /\ A' = [A EXCEPT ![i] = a]
          /\ B' = [B EXCEPT ![i] = b]
    /\ C_seq' = IF prog = "main" THEN [C_seq EXCEPT ![i] = 0] ELSE C_seq
    /\ C_par' = IF prog = "main" THEN [C_par EXCEPT ![i] = 0] ELSE C_par
    /\ i' = i + 1
    /\ UNCHANGED <<prog, N, k, pc, x, numThreads, pedazos, team, wpc, wi,
                   writers, lastRead, correcto, out, ret>>

GenEnd ==
    /\ pc = "gen"
    /\ ~(i < N)
    /\ pc' = IF prog = "main" THEN "seq" ELSE "setthreads"
    /\ i' = 0
    /\ UNCHANGED <<prog, N, k, A, B, C_seq, C_par, x, numThreads, pedazos,
                   team, wpc, wi, writers, lastRead, correcto, out, ret>>

OmpSetNumThreads ==
    /\ pc = "setthreads"
    /\ numThreads' = NumThreads
    /\ pc' = "seq"
    /\ UNCHANGED <<prog, N, k, A, B, C_seq, C_par, i, x, pedazos, team, wpc,
                   wi, writers, lastRead, correcto, out, ret>>

\* --------------------------------------------------- sequential summation
\* the loop body with a typing slip: A[i] + A[i]
SeqBody_SameOperand == C_seq' = [C_seq EXCEPT ![i] = Add32(A[i], A[i])]

\* C_seq[i] = A[i] + B[i]
SeqBody == C_seq' = [C_seq EXCEPT ![i] = Add32(A[i], B[i])]

SeqStep ==
    /\ pc = "seq"
    /\ i < N
    /\ SeqBody
    /\ i' = i + 1
    /\ UNCHANGED <<prog, N, k, A, B, C_par, pc, x, numThreads, pedazos, team,
                   wpc, wi, writers, lastRead, correcto, out, ret>>

SeqEnd ==
    /\ pc = "seq"
    /\ ~(i < N)
    /\ pc' = IF prog = "main" THEN "pedazos" ELSE "fork"
    /\ i' = 0
    /\ UNCHANGED <<prog, N, k, A, B, C_seq, C_par, x, numThreads, pedazos,
                   team, wpc, wi, writers, lastRead, correcto, out, ret>>

\* ----------------------------------------------------- parallel summation
\* int pedazos = chunk; the chunk size is a parameter of the model
SetPedazos ==
    /\ pc = "pedazos"
    /\ pedazos' \in (1 .. MaxChunk) \cup {chunk}
    /\ pc' = "fork"
    /\ UNCHANGED <<prog, N, k, A, B, C_seq, C_par, i, x, numThreads, team,
                   wpc, wi, writers, lastRead, correcto, out, ret>>

\* the team sizes the runtime may give the parallel region: at most the
\* number omp_set_num_threads asked for, any number without such a call
TeamSizes == IF numThreads > 0 THEN 1 .. numThreads ELSE 1 .. MaxThreads

\* the iteration a worker of a team of T threads starts with
FirstIter(t, T) ==
    LET mine == Iterations(t, T, pedazos, N)
    IN  IF mine = {} THEN N ELSE Min(mine)

\* #pragma omp parallel for: the team is formed, each thread gets its chunks
Fork ==
    /\ pc = "fork"
    /\ \E T \in TeamSizes :
          /\ team' = T
          /\ wpc' = [t \in 0 .. (T - 1) |-> "run"]
          /\ wi' = [t \in 0 .. (T - 1) |-> FirstIter(t, T)]
    /\ pc' = "par"
    /\ UNCHANGED <<prog, N, k, A, B, C_seq, C_par, i, x, numThreads, pedazos,
                   writers, lastRead, correcto, out, ret>>

\* the loop body accumulating in place: A[i] += B[i]; C_par[i] = A[i]
WorkerBody_InPlace(t) ==
    /\ A' = [A EXCEPT ![wi[t]] = Add32(A[wi[t]], B[wi[t]])]
    /\ C_par' = [C_par EXCEPT ![wi[t]] = Add32(A[wi[t]], B[wi[t]])]
    /\ UNCHANGED <<B, C_seq>>

\* one iteration of the loop body by worker t: C_par[i] = A[i] + B[i]
WorkerBody(t) ==
    /\ C_par' = [C_par EXCEPT ![wi[t]] = Add32(A[wi[t]], B[wi[t]])]
    /\ UNCHANGED <<A, B, C_seq>>

WorkerStep(t) ==
    /\ wpc[t] = "run"
    /\ wi[t] < N
    /\ WorkerBody(t)
    /\ writers' = [writers EXCEPT ![wi[t]] = Append(@, t)]
    /\ wi' = [wi EXCEPT ![t] = NextIter(t, wi[t])]
    /\ UNCHANGED <<prog, N, k, pc, i, x, numThreads, pedazos, team, wpc,
                   lastRead, correcto, out, ret>>

\* worker t has no iteration left and arrives at the barrier
WorkerEnd(t) ==
    /\ wpc[t] = "run"
    /\ ~(wi[t] < N)
    /\ wpc' = [wpc EXCEPT ![t] = "done"]
    /\ UNCHANGED <<prog, N, k, A, B, C_seq, C_par, pc, i, x, numThreads,
                   pedazos, team, wi, writers, lastRead, correcto, out, ret>>

\* a loop with a nowait clause: no thread waits for the others
BarrierOpen_NoWait == TRUE

\* the implicit barrier at the end of the parallel region
BarrierOpen == \A t \in DOMAIN wpc : wpc[t] = "done"

Join ==
    /\ pc = "par"
    /\ BarrierOpen
    /\ pc' = "printA"
    /\ x' = 0
    /\ UNCHANGED <<prog, N, k, A, B, C_seq, C_par, i, numThreads, pedazos,
                   team, wpc, wi, writers, lastRead, correcto, out, ret>>

\* ---------------------------------------------------------------- reporter
PrintLabels == {"printA", "printB", "printC"}

ArrayOf(label) ==
    IF label = "printA" THEN "A" ELSE IF label = "printB" THEN "B" ELSE "C"

AfterPrint(label) ==
    IF label = "printA" THEN "printB"
    ELSE IF label = "printB" THEN "printC"
    ELSE IF prog = "main" THEN "verifyInit" ELSE "times"

\* cout << d[x]: reads element x of the array, whatever the array's length.
\* A read past the end of the array is undefined behaviour; what the build
\* does is read the words of main's frame that follow the array, so the line
\* shows an arbitrary int and the run goes on.  The printed values are not
\* part of the state, which leaves that int unconstrained.
PrintStep ==
    /\ pc \in PrintLabels
    /\ x < k
    /\ lastRead' = [arr |-> ArrayOf(pc), idx |-> x]
    /\ x' = x + 1
    /\ UNCHANGED <<prog, N, k, A, B, C_seq, C_par, pc, i, numThreads, pedazos,
                   team, wpc, wi, writers, correcto, out, ret>>

PrintEnd ==
    /\ pc \in PrintLabels
    /\ ~(x < k)
    /\ out' = Append(out, Line(ArrayOf(pc), k, 0, 0))
    /\ pc' = AfterPrint(pc)
    /\ x' = 0
    /\ UNCHANGED <<prog, N, k, A, B, C_seq, C_par, i, numThreads, pedazos,
                   team, wpc, wi, writers, lastRead, correcto, ret>>

\* ---------------------------------------------------------------- verifier
VerifyInit ==
    /\ pc = "verifyInit"
    /\ correcto' = TRUE
    /\ i' = 0
    /\ pc' = "verify"
    /\ UNCHANGED <<prog, N, k, A, B, C_seq, C_par, x, numThreads, pedazos,
                   team, wpc, wi, writers, lastRead, out, ret>>

Mismatch(j) == C_seq[j] # C_par[j]

\* the loop without its break
BreakOnMismatch_Missing == FALSE

\* break; after the first difference is reported
BreakOnMismatch == TRUE

Verify ==
    /\ pc = "verify"
    /\ IF i < N
       THEN IF Mismatch(i)
            THEN /\ correcto' = FALSE
                 /\ out' = Append(out, Line("ERROR", i, C_seq[i], C_par[i]))
                 /\ IF BreakOnMismatch
                    THEN pc' = "status" /\ i' = i
                    ELSE pc' = pc /\ i' = i + 1
            ELSE /\ i' = i + 1
                 /\ UNCHANGED <<correcto, out, pc>>
       ELSE /\ pc' = "status"
            /\ UNCHANGED <<correcto, out, i>>
    /\ UNCHANGED <<prog, N, k, A, B, C_seq, C_par, x, numThreads, pedazos,
                   team, wpc, wi, writers, lastRead, ret>>

\* a verification failure treated as fatal: the timing report is skipped
AfterStatus_FatalMismatch == IF correcto THEN "times" ELSE "return"

\* control falls through to the timing report whatever correcto is
AfterStatus == "times"

VerifyStatus ==
    /\ pc = "status"
    /\ out' = Append(out, Line(IF correcto THEN "OK" ELSE "FALLO", 0, 0, 0))
    /\ pc' = AfterStatus
    /\ UNCHANGED <<prog, N, k, A, B, C_seq, C_par, i, x, numThreads, pedazos,
                   team, wpc, wi, writers, lastRead, correcto, ret>>

\* ------------------------------------------------------ timings and return
PrintTimes ==
    /\ pc = "times"
    /\ out' = out \o <<Line("Tseq", 0, 0, 0), Line("Tpar", 0, 0, 0)>>
    /\ pc' = "return"
    /\ UNCHANGED <<prog, N, k, A, B, C_seq, C_par, i, x, numThreads, pedazos,
                   team, wpc, wi, writers, lastRead, correcto, ret>>

Return ==
    /\ pc = "return"
    /\ ret' = 0
    /\ pc' = "done"
    /\ UNCHANGED <<prog, N, k, A, B, C_seq, C_par, i, x, numThreads, pedazos,
                   team, wpc, wi, writers, lastRead, correcto, out>>

Next ==
    \/ GenStep
    \/ GenEnd
    \/ OmpSetNumThreads
    \/ SeqStep
    \/ SeqEnd
    \/ SetPedazos
    \/ Fork
    \/ \E t \in DOMAIN wpc : WorkerStep(t)
    \/ \E t \in DOMAIN wpc : WorkerEnd(t)
    \/ Join
    \/ PrintStep
    \/ PrintEnd
    \/ VerifyInit
    \/ Verify
    \/ VerifyStatus
    \/ PrintTimes
    \/ Return

Spec == Init /\ [][Next]_vars

\* ------------------------------------------------- the verifier on its own
\* The verifier, the status line, the timing report and the return, started
\* on arbitrary contents of the two result arrays (equal, or differing at one
\* or more indices).
ResultValues == {Add32(a, b) : a \in DistValues, b \in DistValues}

InitVerify ==
    /\ prog = "main"
    /\ N \in 0 .. MaxN
    /\ k = mostrar
    /\ A = Zeros(N)
    /\ B = Zeros(N)
    /\ C_seq \in [Idx -> ResultValues]
    /\ C_par \in [Idx -> ResultValues]
    /\ pc = "verifyInit"
    /\ i = 0
    /\ x = 0
    /\ numThreads = 0
    /\ pedazos = chunk
    /\ team = 0
    /\ wpc = << >>
    /\ wi = << >>
    /\ writers = [j \in Idx |-> << >>]
    /\ lastRead = [arr |-> "none", idx |-> 0]
    /\ correcto = FALSE
    /\ out = << >>
    /\ ret = -1

NextVerify ==
    \/ VerifyInit
    \/ Verify
    \/ VerifyStatus
    \/ PrintTimes
    \/ Return

SpecVerify == InitVerify /\ [][NextVerify]_vars

\* ------------------------------------------------------------- properties
AfterSeq == pc \notin {"gen", "setthreads", "seq"}

PostJoin == pc \notin {"gen", "setthreads", "seq", "pedazos", "fork", "par"}

AfterVerify == pc \in {"status", "times", "return", "done"}

Sum(j) == A[j] + B[j]

TwoWorkersWrote ==
    \E j1 \in Idx, j2 \in Idx :
        /\ writers[j1] # << >>
        /\ writers[j2] # << >>
        /\ writers[j1] # writers[j2]

\* C1: once the parallel region has joined, the parallel result equals the
\* sequential result at every index, for every array length, every input and
\* every interleaving of the workers.
ParallelEqualsSequential ==
    PostJoin => \A j \in Idx : C_par[j] = C_seq[j]

ParallelEqualsSequential_Witness ==
    /\ pc = "printA"
    /\ N >= 2
    /\ TwoWorkersWrote
    /\ \E j1 \in Idx, j2 \in Idx : C_par[j1] # C_par[j2]

\* C2: the sequential loop, run by the main thread alone, fills C_seq in
\* increasing index order: while it runs, the indices below its counter hold
\* A[j] + B[j] and the others are still untouched; after it, every index
\* holds A[j] + B[j].
SequentialSum ==
    /\ pc = "seq" =>
          /\ team = 0
          /\ \A j \in Idx : C_seq[j] = IF j < i THEN Sum(j) ELSE 0
    /\ AfterSeq => \A j \in Idx : C_seq[j] = Sum(j)

SequentialSum_Witness ==
    /\ pc \in {"pedazos", "fork"}
    /\ N >= 2
    /\ \E j1 \in Idx, j2 \in Idx : C_seq[j1] # C_seq[j2]

\* C3: the iterations handed to the workers partition 0..N-1: every index
\* belongs to exactly one worker, no index is ever written twice (so never by
\* two different workers), and after the join every index was written once.
ChunksPartition ==
    /\ team > 0 =>
          \A j \in Idx :
              Cardinality({t \in 0 .. (team - 1) :
                              j \in Iterations(t, team, pedazos, N)}) = 1
    /\ \A j \in Idx : Len(writers[j]) <= 1
    /\ PostJoin => \A j \in Idx : Len(writers[j]) = 1

ChunksPartition_Witness ==
    /\ pc = "printB"
    /\ team >= 2
    /\ TwoWorkersWrote

\* C4: the main thread is past the parallel region (timer stopped, reporter
\* and verifier reading C_par) only when every worker has arrived at the
\* barrier with none of its iterations left.
JoinBeforeRead ==
    PostJoin =>
        /\ team > 0
        /\ \A t \in DOMAIN wpc : wpc[t] = "done" /\ ~(wi[t] < N)

JoinBeforeRead_Witness ==
    /\ pc = "verify"
    /\ lastRead.arr = "C"
    /\ team >= 2
    /\ TwoWorkersWrote

\* C5: the parallel result is a function of A and B alone: whatever the
\* program, the chunk size and the team size, after the join C_par[j] is
\* A[j] + B[j] at every index.
PartitionIndependent ==
    PostJoin => \A j \in Idx : C_par[j] = Sum(j)

PartitionIndependent_Witness ==
    /\ pc = "printC"
    /\ N >= 2
    /\ team = N
    /\ pedazos = 1
    /\ \A j \in Idx : writers[j] = <<j>>

\* C6: the verifier scans in increasing order; when the arrays differ it
\* reports exactly one mismatch, at the smallest differing index with both
\* values, stops there and reports FALLO; when they do not differ (an empty
\* array included) it reports no mismatch and reports OK.
Errors == {j \in 1 .. Len(out) : out[j].tag = "ERROR"}

Statuses == {j \in 1 .. Len(out) : out[j].tag \in {"OK", "FALLO"}}

Differing == {j \in Idx : C_seq[j] # C_par[j]}

VerifierFirstMismatch ==
    /\ pc = "verify" => \A j \in Idx : j < i => j \notin Differing
    /\ (AfterVerify /\ Differing # {}) =>
          /\ correcto = FALSE
          /\ i = Min(Differing)
          /\ Cardinality(Errors) = 1
          /\ \A e \in Errors :
                out[e] = Line("ERROR", i, C_seq[i], C_par[i])
    /\ (AfterVerify /\ Differing = {}) =>
          /\ correcto = TRUE
          /\ i = N
          /\ Errors = {}
    /\ pc \in {"times", "return", "done"} =>
          /\ Cardinality(Statuses) = 1
          /\ \A e \in Statuses :
                /\ out[e].tag = IF Differing = {} THEN "OK" ELSE "FALLO"
                /\ \A f \in Errors : f < e

VerifierFirstMismatch_Witness ==
    /\ pc = "times"
    /\ Cardinality(Differing) >= 2
    /\ Min(Differing) > 0
    /\ \E e \in Statuses : out[e].tag = "FALLO"

\* C7: a mismatch is not fatal: after OK as after FALLO the two timing lines
\* are printed, they are the last two lines, and the program returns 0; an
\* exit code is set only by that return.
MismatchNotFatal ==
    /\ ret \in {-1, 0}
    /\ ret # -1 => pc = "done"
    /\ pc = "done" =>
          /\ ret = 0
          /\ Len(out) >= 3
          /\ out[Len(out) - 2].tag = IF correcto THEN "OK" ELSE "FALLO"
          /\ out[Len(out) - 1].tag = "Tseq"
          /\ out[Len(out)].tag = "Tpar"

MismatchNotFatal_Witness ==
    /\ pc = "done"
    /\ ret = 0
    /\ correcto = FALSE
    /\ Errors # {}

\* C8: every generated element of A and B lies in DistLo..DistHi, every
\* computed element of the two results lies in 2*DistLo..2*DistHi, and no
\* sum leaves the int range: the wrapped sum is the mathematical sum.
Generated(j) == pc # "gen" \/ j < i

ValuesInRange ==
    \A j \in Idx :
        /\ Generated(j) =>
              /\ A[j] \in DistLo .. DistHi
              /\ B[j] \in DistLo .. DistHi
              /\ A[j] <= IntMax - B[j]
              /\ Add32(A[j], B[j]) = A[j] + B[j]
        /\ (AfterSeq \/ (pc = "seq" /\ j < i)) =>
              C_seq[j] \in (2 * DistLo) .. (2 * DistHi)
        /\ writers[j] # << >> =>
              C_par[j] \in (2 * DistLo) .. (2 * DistHi)

ValuesInRange_Witness ==
    /\ pc = "done"
    /\ \E j \in Idx : A[j] = DistHi /\ B[j] = DistHi /\ C_par[j] = 2 * DistHi
    /\ \E j \in Idx : A[j] = DistLo /\ B[j] = DistLo /\ C_seq[j] = 2 * DistLo

\* C9: after the generation loop no step changes A or B, and no step of the
\* parallel pass (nor any later step) changes C_seq.
InputsImmutable ==
    [][/\ pc # "gen" => (A' = A /\ B' = B)
       /\ AfterSeq => C_seq' = C_seq]_vars

InputsImmutable_Witness ==
    /\ pc = "done"
    /\ N >= 2
    /\ TwoWorkersWrote
    /\ \A j \in Idx : C_seq[j] = Sum(j)

=============================================================================
